---- MODULE Spec2Model ----
(***************************************************************************)
(* Model of precalculate.Precalculator (src/precalculate.py).              *)
(*                                                                         *)
(* A Precalculator owns two multiprocessing.pool.ThreadPool objects and a  *)
(* queue.Queue.  The pools are modelled at the level the class relies on:  *)
(* apply_async() appends a task to the pool's task queue (and raises       *)
(* ValueError once the pool has been closed), a worker thread takes a      *)
(* task, runs the function and puts the outcome on the pool's result       *)
(* queue, and the pool's result-handler thread takes the outcome, calls    *)
(* the callback when the function succeeded and forgets the job.  A        *)
(* destruction task has no callback and nobody reads its outcome, so its   *)
(* job is forgotten when the destructor returns or raises.  Idle workers   *)
(* of a pool are interchangeable: the lowest-numbered one takes the next   *)
(* task.  After close() the pool's threads exit once no job is             *)
(* outstanding, and join() waits for them.                                 *)
(*                                                                         *)
(* Objects are identified with the number of the creation job that builds  *)
(* them.  Callers are client threads that call get(), destroy() and stop().*)
(* Callers follow the documented contract: destroy(obj) is only called     *)
(* with an object that a get() returned and that has not yet been passed   *)
(* back (callers may hand objects to each other),                          *)
(* and stop() is not called while another stop() is in progress.  The      *)
(* class keeps no per-caller state, so one fixed caller makes the stop()   *)
(* calls.                                                                  *)
(*                                                                         *)
(* Spec starts from the state create() returns with the default widths.    *)
(* LiveSpec, GetSpec and StopSpec add the scheduling of the pools'         *)
(* threads, of blocked get() calls and of the thread inside stop().        *)
(* CreateSpec starts before create() and passes it a creation width.       *)
(***************************************************************************)
EXTENDS Naturals, Integers, Sequences, FiniteSets, TLC

\* ---- program constants -------------------------------------------------
num_create_threads == 2
num_destroy_threads == 1

\* ---- bounds of the model -----------------------------------------------
NumCallers == 2         \* client threads
MaxGets == 2            \* get() calls made on the running instance
MaxFail == 1            \* constructor or destructor invocations that raise

Pools == {"create", "destroy"}
Callers == 1..NumCallers
\* the caller that calls stop(); callers are interchangeable
Stopper == CHOOSE c \in Callers : \A d \in Callers : c <= d
Jobs == 1..(num_create_threads + MaxGets)

width(p) == IF p = "create" THEN num_create_threads ELSE num_destroy_threads
\* a pool that starts one thread more than its width
Workers_extra(p) == 1..(width(p) + 1)

Workers(p) == 1..width(p)

\* ---- threads -----------------------------------------------------------
CallerThread(c) == <<"caller", "main", c>>
WorkerThread(p, w) == <<p, "worker", w>>
WorkerHandler(p) == <<p, "worker_handler", 0>>
TaskHandler(p) == <<p, "task_handler", 0>>
ResultHandler(p) == <<p, "result_handler", 0>>
PoolThreads(p) ==
    {WorkerHandler(p), TaskHandler(p), ResultHandler(p)}
        \cup {WorkerThread(p, w) : w \in Workers(p)}

VARIABLES
    state,          \* state[p]: "RUN" or "CLOSE" (ThreadPool._state)
    taskqueue,      \* taskqueue[p]: tasks submitted and not yet taken
    running,        \* running[p][w]: the task worker w is executing, or 0
    outqueue,       \* outqueue[p]: outcomes <<job, ok>> awaiting the callback
    live,           \* the pool threads that are alive
    queue,          \* self._queue, the Ready Queue
    next_job,       \* number of the next creation job
    created,        \* objects the constructor has returned
    create_threads, \* the threads that have run the constructor
    destroyed,      \* destroyed[o]: number of destructor invocations on o
    destroy_threads,\* the threads that have run the destructor
    pc,             \* pc[c]: position of caller c
    held,           \* objects get() returned to a caller, not passed back
    item,           \* item[c]: object popped by stop()'s drain, or 0
    gets,           \* number of get() calls that did not raise
    rejected,       \* a get() call has raised ValueError
    stop_called,    \* stop() has been called
    stopped,        \* a stop() call has returned
    ctor_failed,    \* constructor invocations that raised
    dtor_failed,    \* destructor invocations that raised
    settled         \* the N seed objects were all on the queue before any get()

pool_vars == <<state, taskqueue, running, outqueue, live>>
obj_vars == <<created, create_threads, destroyed, destroy_threads>>
hist_vars == <<gets, rejected, stop_called, stopped,
               ctor_failed, dtor_failed, settled>>
vars == <<state, taskqueue, running, outqueue, live, queue, next_job,
          created, create_threads, destroyed, destroy_threads, pc, held, item,
          gets, rejected, stop_called, stopped,
          ctor_failed, dtor_failed, settled>>

StopPcs == {"stop_join_create", "stop_qsize", "stop_pop", "stop_destroy",
            "stop_close_destroy", "stop_join_destroy"}
stopping == \E c \in Callers : pc[c] \in StopPcs

\* ---- helpers -------------------------------------------------------------
Range(s) == {s[i] : i \in 1..Len(s)}
Busy(p) == {w \in Workers(p) : running[p][w] # 0}
\* ThreadPool._cache: the jobs submitted whose outcome has not been handled
cache(p) ==
    Range(taskqueue[p]) \cup {running[p][w] : w \in Busy(p)}
        \cup {outqueue[p][i][1] : i \in 1..Len(outqueue[p])}
\* creation tasks submitted and not yet delivered to the Ready Queue
pending(p) == Len(taskqueue[p]) + Cardinality(Busy(p)) + Len(outqueue[p])

\* ---- Precalculator.create ------------------------------------------------
Init ==
    /\ state = [p \in Pools |-> "RUN"]
    /\ taskqueue = [p \in Pools |->
                      IF p = "create"
                      THEN [i \in 1..num_create_threads |-> i]
                      ELSE <<>>]
    /\ running = [p \in Pools |-> [w \in Workers(p) |-> 0]]
    /\ outqueue = [p \in Pools |-> <<>>]
    /\ live = PoolThreads("create") \cup PoolThreads("destroy")
    /\ queue = <<>>
    /\ next_job = num_create_threads + 1
    /\ created = {}
    /\ create_threads = {}
    /\ destroyed = [o \in Jobs |-> 0]
    /\ destroy_threads = {}
    /\ pc = [c \in Callers |-> "idle"]
    /\ held = {}
    /\ item = [c \in Callers |-> 0]
    /\ gets = 0
    /\ rejected = FALSE
    /\ stop_called = FALSE
    /\ stopped = FALSE
    /\ ctor_failed = 0
    /\ dtor_failed = 0
    /\ settled = FALSE

\* ---- ThreadPool ----------------------------------------------------------
\* apply_async that accepts tasks on a closed pool
accepting_always(p) == TRUE

\* Pool._check_running: apply_async raises ValueError unless this holds
accepting(p) == state[p] = "RUN"

\* apply_async that loses the task
apply_async_drop(p, job) ==
    UNCHANGED taskqueue

\* Pool.apply_async(func, ...): the task joins the pool's task queue
apply_async(p, job) ==
    taskqueue' = [taskqueue EXCEPT ![p] = Append(@, job)]

\* Pool.close()
close(p) ==
    state' = [state EXCEPT ![p] = "CLOSE"]

\* join() that does not wait
joined_nowait(p) == TRUE

\* Pool.join() returns once every thread of the pool has exited
joined(p) == live \cap PoolThreads(p) = {}

\* a creation task without its callback
put_drop(o) ==
    UNCHANGED queue

\* Queue.put, the callback of a creation task (line 64)
put(o) ==
    queue' = Append(queue, o)

\* worker(): a worker thread takes the next task and starts running it
WorkerTake(p, w) ==
    /\ WorkerThread(p, w) \in live
    /\ running[p][w] = 0
    /\ \A v \in Workers(p) : v < w => running[p][v] # 0
    /\ taskqueue[p] # <<>>
    /\ running' = [running EXCEPT ![p][w] = Head(taskqueue[p])]
    /\ taskqueue' = [taskqueue EXCEPT ![p] = Tail(@)]
    /\ UNCHANGED <<state, outqueue, live, queue, next_job, pc, held, item>>
    /\ UNCHANGED obj_vars
    /\ UNCHANGED hist_vars

\* self._constructor() returns (ok) or raises, on worker w of the creation pool
RunConstructor(w, ok) ==
    LET o == running["create"][w] IN
    /\ create_threads' = create_threads \cup {WorkerThread("create", w)}
    /\ created' = IF ok THEN created \cup {o} ELSE created
    /\ ctor_failed' = IF ok THEN ctor_failed ELSE ctor_failed + 1
    /\ UNCHANGED <<destroyed, destroy_threads, dtor_failed>>

\* self._destructor(obj) returns (ok) or raises, on worker w of the destruction pool
RunDestructor(w, ok) ==
    LET o == running["destroy"][w] IN
    /\ destroy_threads' = destroy_threads \cup {WorkerThread("destroy", w)}
    /\ destroyed' = [destroyed EXCEPT ![o] = @ + 1]
    /\ dtor_failed' = IF ok THEN dtor_failed ELSE dtor_failed + 1
    /\ UNCHANGED <<created, create_threads, ctor_failed>>

\* a worker thread that dies when the function it runs raises
WorkerFinish_die(p, w, ok) ==
    /\ running[p][w] # 0
    /\ ok \/ ctor_failed + dtor_failed < MaxFail
    /\ IF p = "create" THEN RunConstructor(w, ok) ELSE RunDestructor(w, ok)
    /\ outqueue' = IF p = "create"
                   THEN [outqueue EXCEPT ![p] = Append(@, <<running[p][w], ok>>)]
                   ELSE outqueue
    /\ running' = [running EXCEPT ![p][w] = 0]
    /\ live' = IF ok THEN live ELSE live \ {WorkerThread(p, w)}
    /\ UNCHANGED <<state, taskqueue, queue, next_job, pc, held, item>>
    /\ UNCHANGED <<gets, rejected, stop_called, stopped, settled>>

\* worker(): the function returns or raises; the outcome of a creation task
\* goes to the result queue for its callback
WorkerFinish(p, w, ok) ==
    /\ running[p][w] # 0
    /\ ok \/ ctor_failed + dtor_failed < MaxFail
    /\ IF p = "create" THEN RunConstructor(w, ok) ELSE RunDestructor(w, ok)
    /\ outqueue' = IF p = "create"
                   THEN [outqueue EXCEPT ![p] = Append(@, <<running[p][w], ok>>)]
                   ELSE outqueue
    /\ running' = [running EXCEPT ![p][w] = 0]
    /\ UNCHANGED <<state, taskqueue, live, queue, next_job, pc, held, item>>
    /\ UNCHANGED <<gets, rejected, stop_called, stopped, settled>>

\* a result handler that calls the callback whether or not the function raised
HandleResult_always(p) ==
    /\ ResultHandler(p) \in live
    /\ outqueue[p] # <<>>
    /\ put(Head(outqueue[p])[1])
    /\ outqueue' = [outqueue EXCEPT ![p] = Tail(@)]
    /\ settled' = (settled \/ (gets = 0 /\ ~stop_called
                                 /\ Len(queue') = num_create_threads))
    /\ UNCHANGED <<state, taskqueue, running, live, next_job, pc, held, item>>
    /\ UNCHANGED obj_vars
    /\ UNCHANGED <<gets, rejected, stop_called, stopped,
                   ctor_failed, dtor_failed>>

\* Pool._handle_results / ApplyResult._set: the result handler takes an
\* outcome, calls the callback if the function succeeded, forgets the job
HandleResult(p) ==
    /\ ResultHandler(p) \in live
    /\ outqueue[p] # <<>>
    /\ LET job == Head(outqueue[p])[1]
           ok == Head(outqueue[p])[2]
       IN IF ok THEN put(job) ELSE UNCHANGED queue
    /\ outqueue' = [outqueue EXCEPT ![p] = Tail(@)]
    /\ settled' = (settled \/ (gets = 0 /\ ~stop_called
                                 /\ Len(queue') = num_create_threads))
    /\ UNCHANGED <<state, taskqueue, running, live, next_job, pc, held, item>>
    /\ UNCHANGED obj_vars
    /\ UNCHANGED <<gets, rejected, stop_called, stopped,
                   ctor_failed, dtor_failed>>

\* Pool._handle_workers: after close(), the worker handler exits once the
\* cache is empty, sending the sentinel to the task handler
WorkerHandlerExit(p) ==
    /\ WorkerHandler(p) \in live
    /\ state[p] # "RUN"
    /\ cache(p) = {}
    /\ live' = live \ {WorkerHandler(p)}
    /\ UNCHANGED <<state, taskqueue, running, outqueue, queue, next_job,
                   pc, held, item>>
    /\ UNCHANGED obj_vars
    /\ UNCHANGED hist_vars

\* Pool._handle_tasks: the task handler gets the sentinel, sends sentinels
\* to the result handler and to the workers, and exits
TaskHandlerExit(p) ==
    /\ TaskHandler(p) \in live
    /\ WorkerHandler(p) \notin live
    /\ live' = live \ {TaskHandler(p)}
    /\ UNCHANGED <<state, taskqueue, running, outqueue, queue, next_job,
                   pc, held, item>>
    /\ UNCHANGED obj_vars
    /\ UNCHANGED hist_vars

\* Pool._handle_results: the result handler gets the sentinel and exits
\* once the cache is empty
ResultHandlerExit(p) ==
    /\ ResultHandler(p) \in live
    /\ TaskHandler(p) \notin live
    /\ cache(p) = {}
    /\ live' = live \ {ResultHandler(p)}
    /\ UNCHANGED <<state, taskqueue, running, outqueue, queue, next_job,
                   pc, held, item>>
    /\ UNCHANGED obj_vars
    /\ UNCHANGED hist_vars

\* worker(): a worker gets the sentinel and exits
WorkerExit(p, w) ==
    /\ WorkerThread(p, w) \in live
    /\ TaskHandler(p) \notin live
    /\ running[p][w] = 0
    /\ taskqueue[p] = <<>>
    /\ live' = live \ {WorkerThread(p, w)}
    /\ UNCHANGED <<state, taskqueue, running, outqueue, queue, next_job,
                   pc, held, item>>
    /\ UNCHANGED obj_vars
    /\ UNCHANGED hist_vars

\* ---- Precalculator -------------------------------------------------------
\* _precalc that submits nothing
precalc_skip ==
    UNCHANGED <<taskqueue, next_job>>

\* Precalculator._precalc: queue a precalculation of another object
precalc ==
    /\ apply_async("create", next_job)
    /\ next_job' = next_job + 1

\* destroy that waits until the destruction pool is idle
destroy_wait(t, o) ==
    /\ taskqueue["destroy"] = <<>>
    /\ Busy("destroy") = {}
    /\ apply_async("destroy", o)
    /\ UNCHANGED <<destroyed, destroy_threads>>

\* destroy that calls the destructor itself
destroy_inline(t, o) ==
    /\ destroyed' = [destroyed EXCEPT ![o] = @ + 1]
    /\ destroy_threads' = destroy_threads \cup {t}
    /\ UNCHANGED taskqueue

\* Precalculator.destroy, called on thread t: schedule obj to be destroyed
\* in the thread pool; the destructor does not run in the call
destroy(t, o) ==
    /\ apply_async("destroy", o)
    /\ UNCHANGED <<destroyed, destroy_threads>>

\* get() that pops without submitting a replacement
GetCall_nosubmit(c) ==
    /\ pc[c] = "idle"
    /\ gets < MaxGets
    /\ pc' = [pc EXCEPT ![c] = "get_pop"]
    /\ gets' = gets + 1
    /\ UNCHANGED <<taskqueue, next_job, rejected>>
    /\ UNCHANGED <<state, running, outqueue, live, queue, held, item>>
    /\ UNCHANGED obj_vars
    /\ UNCHANGED <<stop_called, stopped, ctor_failed, dtor_failed, settled>>

\* get(), line 84: self._precalc(); apply_async raises ValueError when the
\* creation pool is closed, and the error propagates to the caller of get()
GetCall(c) ==
    /\ pc[c] = "idle"
    /\ IF accepting("create")
       THEN /\ gets < MaxGets
            /\ precalc
            /\ pc' = [pc EXCEPT ![c] = "get_pop"]
            /\ gets' = gets + 1
            /\ UNCHANGED rejected
       ELSE /\ rejected' = TRUE
            /\ UNCHANGED <<taskqueue, next_job, pc, gets>>
    /\ UNCHANGED <<state, running, outqueue, live, queue, held, item>>
    /\ UNCHANGED obj_vars
    /\ UNCHANGED <<stop_called, stopped, ctor_failed, dtor_failed, settled>>

\* get() that returns the head of the queue without removing it
GetPop_peek(c) ==
    /\ pc[c] = "get_pop"
    /\ queue # <<>>
    /\ held' = held \cup {Head(queue)}
    /\ pc' = [pc EXCEPT ![c] = "idle"]
    /\ UNCHANGED <<queue, next_job, item>>
    /\ UNCHANGED pool_vars
    /\ UNCHANGED obj_vars
    /\ UNCHANGED hist_vars

\* get(), line 85: return self._queue.get(), blocking while the queue is empty
GetPop(c) ==
    /\ pc[c] = "get_pop"
    /\ queue # <<>>
    /\ held' = held \cup {Head(queue)}
    /\ queue' = Tail(queue)
    /\ pc' = [pc EXCEPT ![c] = "idle"]
    /\ UNCHANGED <<next_job, item>>
    /\ UNCHANGED pool_vars
    /\ UNCHANGED obj_vars
    /\ UNCHANGED hist_vars

\* destroy(obj) called by caller c with a held object; the call raises
\* ValueError when the destruction pool is closed and the object stays held
DestroyCall(c, o) ==
    /\ pc[c] = "idle"
    /\ o \in held
    /\ IF accepting("destroy")
       THEN /\ destroy(CallerThread(c), o)
            /\ held' = held \ {o}
       ELSE UNCHANGED <<taskqueue, held, destroyed, destroy_threads>>
    /\ UNCHANGED <<state, running, outqueue, live, queue, next_job, pc, item>>
    /\ UNCHANGED <<created, create_threads>>
    /\ UNCHANGED hist_vars

\* stop(), line 71: self._create_pool.close()
StopCall(c) ==
    /\ pc[c] = "idle"
    /\ ~stopping
    /\ close("create")
    /\ pc' = [pc EXCEPT ![c] = "stop_join_create"]
    /\ stop_called' = TRUE
    /\ UNCHANGED <<taskqueue, running, outqueue, live, queue, next_job,
                   held, item>>
    /\ UNCHANGED obj_vars
    /\ UNCHANGED <<gets, rejected, stopped,
                   ctor_failed, dtor_failed, settled>>

\* stop() that starts the drain without joining the creation pool
StopJoinCreate_nowait(c) ==
    /\ pc[c] = "stop_join_create"
    /\ pc' = [pc EXCEPT ![c] = "stop_qsize"]
    /\ UNCHANGED <<queue, next_job, held, item>>
    /\ UNCHANGED pool_vars
    /\ UNCHANGED obj_vars
    /\ UNCHANGED hist_vars

\* stop(), line 72: self._create_pool.join()
StopJoinCreate(c) ==
    /\ pc[c] = "stop_join_create"
    /\ joined("create")
    /\ pc' = [pc EXCEPT ![c] = "stop_qsize"]
    /\ UNCHANGED <<queue, next_job, held, item>>
    /\ UNCHANGED pool_vars
    /\ UNCHANGED obj_vars
    /\ UNCHANGED hist_vars

\* stop() whose drain pops before it looks at the queue size
StopQsize_popfirst(c) ==
    /\ pc[c] = "stop_qsize"
    /\ pc' = [pc EXCEPT ![c] = "stop_pop"]
    /\ UNCHANGED <<queue, next_job, held, item>>
    /\ UNCHANGED pool_vars
    /\ UNCHANGED obj_vars
    /\ UNCHANGED hist_vars

\* stop() without the drain loop
StopQsize_skip(c) ==
    /\ pc[c] = "stop_qsize"
    /\ pc' = [pc EXCEPT ![c] = "stop_close_destroy"]
    /\ UNCHANGED <<queue, next_job, held, item>>
    /\ UNCHANGED pool_vars
    /\ UNCHANGED obj_vars
    /\ UNCHANGED hist_vars

\* stop(), line 73: while self._queue.qsize()
StopQsize(c) ==
    /\ pc[c] = "stop_qsize"
    /\ pc' = [pc EXCEPT ![c] = IF Len(queue) # 0 THEN "stop_pop"
                                                ELSE "stop_close_destroy"]
    /\ UNCHANGED <<queue, next_job, held, item>>
    /\ UNCHANGED pool_vars
    /\ UNCHANGED obj_vars
    /\ UNCHANGED hist_vars

\* a drain that reads the head of the queue without removing it
StopPop_peek(c) ==
    /\ pc[c] = "stop_pop"
    /\ queue # <<>>
    /\ item' = [item EXCEPT ![c] = Head(queue)]
    /\ pc' = [pc EXCEPT ![c] = "stop_destroy"]
    /\ UNCHANGED <<queue, next_job, held>>
    /\ UNCHANGED pool_vars
    /\ UNCHANGED obj_vars
    /\ UNCHANGED hist_vars

\* stop(), line 74: self._queue.get(), blocking while the queue is empty
StopPop(c) ==
    /\ pc[c] = "stop_pop"
    /\ queue # <<>>
    /\ item' = [item EXCEPT ![c] = Head(queue)]
    /\ queue' = Tail(queue)
    /\ pc' = [pc EXCEPT ![c] = "stop_destroy"]
    /\ UNCHANGED <<next_job, held>>
    /\ UNCHANGED pool_vars
    /\ UNCHANGED obj_vars
    /\ UNCHANGED hist_vars

\* stop(), line 74: self.destroy(...) of the popped object; a ValueError
\* raised by a closed destruction pool ends stop()
StopDestroy(c) ==
    /\ pc[c] = "stop_destroy"
    /\ IF accepting("destroy")
       THEN /\ destroy(CallerThread(c), item[c])
            /\ pc' = [pc EXCEPT ![c] = "stop_qsize"]
       ELSE /\ UNCHANGED <<taskqueue, destroyed, destroy_threads>>
            /\ pc' = [pc EXCEPT ![c] = "idle"]
    /\ item' = [item EXCEPT ![c] = 0]
    /\ UNCHANGED <<state, running, outqueue, live, queue, next_job, held>>
    /\ UNCHANGED <<created, create_threads>>
    /\ UNCHANGED hist_vars

\* stop(), line 75: self._destroy_pool.close()
StopCloseDestroy(c) ==
    /\ pc[c] = "stop_close_destroy"
    /\ close("destroy")
    /\ pc' = [pc EXCEPT ![c] = "stop_join_destroy"]
    /\ UNCHANGED <<taskqueue, running, outqueue, live, queue, next_job,
                   held, item>>
    /\ UNCHANGED obj_vars
    /\ UNCHANGED hist_vars

\* stop() that returns without joining the destruction pool
StopJoinDestroy_nowait(c) ==
    /\ pc[c] = "stop_join_destroy"
    /\ pc' = [pc EXCEPT ![c] = "idle"]
    /\ stopped' = TRUE
    /\ UNCHANGED <<queue, next_job, held, item>>
    /\ UNCHANGED pool_vars
    /\ UNCHANGED obj_vars
    /\ UNCHANGED <<gets, rejected, stop_called,
                   ctor_failed, dtor_failed, settled>>

\* stop(), line 76: self._destroy_pool.join(), then stop() returns
StopJoinDestroy(c) ==
    /\ pc[c] = "stop_join_destroy"
    /\ joined("destroy")
    /\ pc' = [pc EXCEPT ![c] = "idle"]
    /\ stopped' = TRUE
    /\ UNCHANGED <<queue, next_job, held, item>>
    /\ UNCHANGED pool_vars
    /\ UNCHANGED obj_vars
    /\ UNCHANGED <<gets, rejected, stop_called,
                   ctor_failed, dtor_failed, settled>>

\* ---- specification -------------------------------------------------------
PoolStep ==
    \E p \in Pools :
        \/ \E w \in Workers(p) : WorkerTake(p, w)
        \/ \E w \in Workers(p), ok \in BOOLEAN : WorkerFinish(p, w, ok)
        \/ p = "create" /\ HandleResult(p)
        \/ WorkerHandlerExit(p)
        \/ TaskHandlerExit(p)
        \/ ResultHandlerExit(p)
        \/ \E w \in Workers(p) : WorkerExit(p, w)

StopStep ==
    \E c \in Callers :
        \/ StopJoinCreate(c)
        \/ StopQsize(c)
        \/ StopPop(c)
        \/ StopDestroy(c)
        \/ StopCloseDestroy(c)
        \/ StopJoinDestroy(c)

Next ==
    \/ PoolStep
    \/ StopStep
    \/ \E c \in Callers : GetCall(c)
    \/ \E c \in Callers : GetPop(c)
    \/ \E c \in Callers, o \in Jobs : DestroyCall(c, o)
    \/ StopCall(Stopper)

Spec == Init /\ [][Next]_vars

\* The pools' threads when every constructor and destructor call returns
PoolStepOk ==
    \E p \in Pools :
        \/ \E w \in Workers(p) : WorkerTake(p, w)
        \/ \E w \in Workers(p) : WorkerFinish(p, w, TRUE)
        \/ p = "create" /\ HandleResult(p)
        \/ WorkerHandlerExit(p)
        \/ TaskHandlerExit(p)
        \/ ResultHandlerExit(p)
        \/ \E w \in Workers(p) : WorkerExit(p, w)

NextOk ==
    \/ PoolStepOk
    \/ StopStep
    \/ \E c \in Callers : GetCall(c)
    \/ \E c \in Callers : GetPop(c)
    \/ \E c \in Callers, o \in Jobs : DestroyCall(c, o)
    \/ StopCall(Stopper)

\* Constructors and destructors terminate without failing and the pools'
\* threads are scheduled fairly; callers are free to call or not
LiveSpec == Init /\ [][NextOk]_vars /\ WF_vars(PoolStepOk)

\* As LiveSpec, and while the Ready Queue holds an object and get() calls
\* are blocked on it, one of them is woken (Queue.put notifies a waiter)
GetSpec ==
    /\ Init /\ [][NextOk]_vars
    /\ WF_vars(PoolStepOk)
    /\ WF_vars(\E c \in Callers : GetPop(c))

\* Constructors and destructors terminate, returning or raising; the pools'
\* threads are scheduled fairly and the thread inside stop() keeps running
StopSpec == Init /\ [][Next]_vars /\ WF_vars(PoolStep) /\ WF_vars(StopStep)

\* ---- create() with a chosen creation width ----------------------------------
\* before create(): no pool, no thread, no instance to call
NoInstance ==
    /\ state = [p \in Pools |-> "NONE"]
    /\ taskqueue = [p \in Pools |-> <<>>]
    /\ running = [p \in Pools |-> [w \in Workers(p) |-> 0]]
    /\ outqueue = [p \in Pools |-> <<>>]
    /\ live = {}
    /\ queue = <<>>
    /\ next_job = 1
    /\ created = {}
    /\ create_threads = {}
    /\ destroyed = [o \in Jobs |-> 0]
    /\ destroy_threads = {}
    /\ pc = [c \in Callers |-> "no_instance"]
    /\ held = {}
    /\ item = [c \in Callers |-> 0]
    /\ gets = 0
    /\ rejected = FALSE
    /\ stop_called = FALSE
    /\ stopped = FALSE
    /\ ctor_failed = 0
    /\ dtor_failed = 0
    /\ settled = FALSE

\* create() that starts the pools without ThreadPool's check of the width
CreateCall_unchecked(n) ==
    /\ \A c \in Callers : pc[c] = "no_instance"
    /\ state' = [p \in Pools |-> "RUN"]
    /\ live' = PoolThreads("create") \cup PoolThreads("destroy")
    /\ taskqueue' = [taskqueue EXCEPT !["create"] = [i \in 1..n |-> i]]
    /\ next_job' = n + 1
    /\ pc' = [c \in Callers |-> "idle"]
    /\ UNCHANGED <<running, outqueue, queue, held, item>>
    /\ UNCHANGED obj_vars
    /\ UNCHANGED hist_vars

\* create(num_create_threads=n), lines 54-60: ThreadPool(n) raises ValueError
\* when n < 1, and then create() raises and there is no instance; otherwise
\* the pools start, n seed tasks are submitted and the instance is returned
CreateCall(n) ==
    /\ \A c \in Callers : pc[c] = "no_instance"
    /\ IF n < 1
       THEN /\ pc' = [c \in Callers |-> "create_raised"]
            /\ UNCHANGED <<state, live, taskqueue, next_job>>
       ELSE /\ state' = [p \in Pools |-> "RUN"]
            /\ live' = PoolThreads("create") \cup PoolThreads("destroy")
            /\ taskqueue' = [taskqueue EXCEPT !["create"] = [i \in 1..n |-> i]]
            /\ next_job' = n + 1
            /\ pc' = [c \in Callers |-> "idle"]
    /\ UNCHANGED <<running, outqueue, queue, held, item>>
    /\ UNCHANGED obj_vars
    /\ UNCHANGED hist_vars

\* create() is called with width 0 or with the default width, then the
\* instance is used; constructors and destructors return
NextCreate ==
    \/ \E n \in {0, num_create_threads} : CreateCall(n)
    \/ NextOk

CreateSpec == NoInstance /\ [][NextCreate]_vars

\* ---- properties ------------------------------------------------------------
Waiting == {c \in Callers : pc[c] = "get_pop"}
AllIdle == \A c \in Callers : pc[c] = "idle"
CreateWorkers == {WorkerThread("create", w) : w \in Workers("create")}
DestroyWorkers == {WorkerThread("destroy", w) : w \in Workers("destroy")}

\* C1 as stated: when stop() has returned, every object ever constructed has
\* been destroyed exactly once.
C1_AllDestroyedAtStop ==
    stopped => \A o \in created : destroyed[o] = 1

\* C1 amended: when stop() has returned, every object ever constructed has
\* been destroyed exactly once, except the objects a caller still holds
\* (returned by get() and not accepted back by destroy()), which have not
\* been destroyed.
C1_UnheldDestroyedAtStop ==
    stopped =>
        \A o \in created : destroyed[o] = (IF o \in held THEN 0 ELSE 1)

C1_Witness ==
    /\ stopped
    /\ held # {}
    /\ Cardinality(created) > num_create_threads
    /\ \E o \in created : destroyed[o] = 1

\* C2: between create() and stop(), when no get() is in progress and no
\* constructor has failed, the creation tasks not yet delivered plus the
\* Ready Queue length equal the creation width.
C2_SteadyState ==
    (~stop_called /\ Waiting = {} /\ ctor_failed = 0) =>
        pending("create") + Len(queue) = num_create_threads

C2_Witness ==
    /\ ~stop_called /\ Waiting = {} /\ ctor_failed = 0
    /\ gets >= 2
    /\ \E o \in Jobs : destroyed[o] = 1
    /\ Len(queue) = num_create_threads

\* C3: create() submits N tasks and every get() that does not raise submits
\* one more, and when stop() has returned each of these N+K tasks has run: N+K
\* objects were constructed, less the constructor calls that raised.
C3_ConstructedAtStop ==
    /\ next_job - 1 = num_create_threads + gets
    /\ stopped =>
          Cardinality(created) + ctor_failed = num_create_threads + gets

C3_Witness ==
    /\ stopped
    /\ gets >= 2
    /\ held = {}
    /\ Cardinality(created) = num_create_threads + gets

\* C4: with no get() and no stop(), the Ready Queue eventually holds N
\* objects and never more; from then on the first N get() calls each find an
\* object on the queue.
C4_Precreated ==
    /\ <>(settled \/ gets > 0 \/ stop_called)
    /\ [](gets = 0 => Len(queue) <= num_create_threads)
    /\ []((settled /\ ~stop_called /\ gets <= num_create_threads) =>
              Len(queue) >= Cardinality(Waiting))

C4_Witness ==
    /\ settled
    /\ ~stop_called
    /\ gets = num_create_threads
    /\ Cardinality(held) = num_create_threads

\* C5: whenever get() calls have returned and none is in progress, the
\* Ready Queue depth returns to N, unless a further get() or stop() is
\* called first.
C5_Replenished ==
    (gets >= 1 /\ Waiting = {} /\ ~stop_called) ~>
        (Len(queue) = num_create_threads \/ Waiting # {} \/ stop_called)

C5_Witness ==
    /\ gets >= 2
    /\ AllIdle
    /\ ~stop_called
    /\ Len(queue) = num_create_threads

\* C6: an idle caller can always complete destroy(obj) in one step,
\* whatever is pending in the destruction pool, and the step only submits
\* a task: it runs no destructor and starts none.
C6_DestroyIsAsync ==
    \A c \in Callers : \A o \in held :
        pc[c] = "idle" =>
            ENABLED (/\ DestroyCall(c, o)
                     /\ pc'[c] = "idle"
                     /\ destroyed' = destroyed
                     /\ running' = running
                     /\ accepting("destroy") =>
                            taskqueue'["destroy"] = Append(taskqueue["destroy"], o))

\* destroy(obj) has returned and every caller is idle, while obj waits
\* behind a running destructor
C6_Witness ==
    /\ AllIdle
    /\ ~stop_called
    /\ Busy("destroy") # {}
    /\ \E o \in Range(taskqueue["destroy"]) : destroyed[o] = 0

\* C7: once stop() has returned no task of either pool is queued or running,
\* the Ready Queue is empty and no thread of either pool is alive.
C7_Quiesced ==
    stopped =>
        /\ \A p \in Pools : cache(p) = {}
        /\ queue = <<>>
        /\ live = {}

C7_Witness ==
    /\ stopped
    /\ gets >= 1
    /\ \E o \in Jobs : destroyed[o] = 1

\* C8: the destructor is invoked at most once per object, and an object a
\* caller holds is neither on the Ready Queue, nor taken by stop()'s drain,
\* nor in the destruction pool, nor destroyed.
C8_AtMostOnce ==
    /\ \A o \in Jobs : destroyed[o] <= 1
    /\ \A o \in held :
          /\ destroyed[o] = 0
          /\ o \notin Range(queue)
          /\ o \notin cache("destroy")
          /\ \A c \in Callers : item[c] # o

C8_Witness ==
    /\ stopped
    /\ held # {}
    /\ \E o \in Jobs : destroyed[o] = 1

\* C9 as stated: no get() call made while stop() is in progress ends with
\* an error raised to its caller.
C9_NoErrorInRace ==
    [][stopping => (rejected' = rejected)]_vars

\* C9 amended: a get() that is waiting when stop() is called leaves its wait
\* only by being served the head of the Ready Queue, and once stop() has
\* returned the queue is empty and the creation pool has quiesced, so it
\* waits forever; a get() called while stop() is in progress is rejected
\* with ValueError by the closed creation pool and takes nothing.
C9_RaceOutcomes ==
    /\ [][/\ stopping => (gets' = gets /\ next_job' = next_job)
          /\ rejected' # rejected =>
                /\ ~accepting("create")
                /\ UNCHANGED <<pc, taskqueue, next_job, queue, held>>]_vars
    /\ [][\A c \in Callers :
              (pc[c] = "get_pop" /\ pc'[c] # "get_pop") =>
                  /\ queue # <<>>
                  /\ pc'[c] = "idle"
                  /\ held' = held \cup {Head(queue)}
                  /\ queue' = Tail(queue)]_vars
    /\ [](stopped =>
              /\ queue = <<>>
              /\ cache("create") = {}
              /\ state["create"] = "CLOSE")

\* one get() waits past the completion of stop(), another was rejected
C9_Witness ==
    /\ stopped
    /\ Waiting # {}
    /\ rejected

\* C10: the constructor runs only on worker threads of the creation pool
\* and the destructor only on worker threads of the destruction pool.
C10_RunInPools ==
    /\ create_threads \subseteq CreateWorkers
    /\ destroy_threads \subseteq DestroyWorkers

\* stop() has returned after a drain that submitted every destruction
C10_Witness ==
    /\ stopped
    /\ gets = 0
    /\ create_threads # {}
    /\ destroy_threads # {}

\* the supply: creation tasks queued, running or returned and awaiting their
\* callback, plus the objects on the Ready Queue
Supply ==
    Len(taskqueue["create"]) + Cardinality(Busy("create"))
        + Cardinality({i \in 1..Len(outqueue["create"]) : outqueue["create"][i][2]})
        + Len(queue)

\* C11: a constructor invocation that raises puts nothing on the Ready Queue
\* (only constructed objects are ever queued or returned), no get() caller is
\* given an error while the creation pool is open, and, when no get() is in
\* progress before stop(), the supply equals the creation width less the
\* number of failed constructions, however many get() calls have been made.
C11_FailureShrinksSupply ==
    /\ Range(queue) \subseteq created
    /\ held \subseteq created
    /\ rejected => ~accepting("create")
    /\ (~stop_called /\ Waiting = {}) =>
            Supply + ctor_failed = num_create_threads

\* a constructor raised, its outcome was handled, and get() calls made
\* since have returned
C11_Witness ==
    /\ ctor_failed >= 1
    /\ ~stop_called
    /\ Waiting = {}
    /\ gets >= 2
    /\ outqueue["create"] = <<>>
    /\ Len(queue) + ctor_failed = num_create_threads

\* the objects stop() is to destroy: constructed and not held by a caller
Unheld == created \ held

\* C12: when a destructor invocation has raised, stop() in progress with no
\* get() waiting and its drain not blocked still returns, and when it has
\* returned the destructor has been invoked exactly once on every
\* constructed object no caller holds, and stop() ended in no error.
C12_DestructorFailure ==
    /\ [](stopped /\ dtor_failed >= 1 =>
              /\ \A o \in Unheld : destroyed[o] = 1
              /\ destroy_threads \subseteq DestroyWorkers
              /\ live \cap PoolThreads("destroy") = {})
    /\ [][\A c \in Callers :
              (pc[c] \in StopPcs /\ pc'[c] = "idle") =>
                  (pc[c] = "stop_join_destroy" /\ stopped')]_vars
    /\ (/\ dtor_failed >= 1
        /\ stopping
        /\ Waiting = {}
        /\ \A c \in Callers : pc[c] = "stop_pop" => queue # <<>>)
           ~> stopped

\* stop() has returned after draining the seed objects, one of whose
\* destructors raised
C12_Witness ==
    /\ stopped
    /\ dtor_failed >= 1
    /\ gets = 0
    /\ Cardinality({o \in Jobs : destroyed[o] = 1}) >= num_create_threads

\* the positions of stop() after its first step, in its drain, and after it
AfterJoinCreate == StopPcs \ {"stop_join_create"}
DrainPcs == {"stop_qsize", "stop_pop", "stop_destroy"}
AfterDrain == {"stop_close_destroy", "stop_join_destroy"}

\* C13: stop() moves through its steps in the order join of the creation
\* pool, drain, close and join of the destruction pool.  Once the drain has
\* begun the creation pool has no task left and no live thread, so nothing
\* can be pushed onto the Ready Queue; when the drain has ended the Ready
\* Queue is empty and every constructed object is held by a caller, in the
\* destruction pool or destroyed; and the destruction pool is open while the
\* drain of the first stop() runs and whenever the drain submits.
C13_StopOrder ==
    \A c \in Callers :
        /\ pc[c] \in AfterJoinCreate =>
              /\ cache("create") = {}
              /\ live \cap PoolThreads("create") = {}
              /\ ~ENABLED HandleResult("create")
        /\ pc[c] \in AfterDrain =>
              /\ queue = <<>>
              /\ \A o \in created :
                    o \in held \/ o \in cache("destroy") \/ destroyed[o] = 1
        /\ (pc[c] \in DrainPcs \cup {"stop_join_create"} /\ ~stopped) =>
              accepting("destroy")
        /\ pc[c] = "stop_destroy" => accepting("destroy")

\* the drain has ended after submitting the objects that get() calls left
\* and replaced
C13_Witness ==
    /\ pc[Stopper] = "stop_join_destroy"
    /\ ~stopped
    /\ gets >= 1
    /\ Cardinality(cache("destroy")) >= num_create_threads

\* C14: a stop() called when no get() is in progress returns.
C14_StopReturns ==
    (pc[Stopper] = "stop_join_create" /\ Waiting = {}) ~> stopped

\* stop() has returned after get() calls, a failure and a drain
C14_Witness ==
    /\ stopped
    /\ Waiting = {}
    /\ ~rejected
    /\ gets >= 1
    /\ ctor_failed + dtor_failed >= 1
    /\ gets > Cardinality(held)

\* C15: get() has submitted its replacement when it waits: before stop()
\* the supply is the creation width plus the number of waiting callers; and
\* every waiting get() returns, unless stop() is called.
C15_GetReturns ==
    /\ [](~stop_called => Supply = num_create_threads + Cardinality(Waiting))
    /\ \A c \in Callers :
          (pc[c] = "get_pop") ~> (pc[c] = "idle" \/ stop_called)

\* two get() calls have returned their objects while a replacement is
\* still in the creation pool
C15_Witness ==
    /\ ~stop_called
    /\ gets >= 2
    /\ Waiting = {}
    /\ Cardinality(held) >= 2
    /\ next_job > num_create_threads + 1
    /\ Len(queue) < num_create_threads

\* number of times o occurs in the sequence s
Occurrences(s, o) == Cardinality({i \in 1..Len(s) : s[i] = o})

\* the number of places among the Ready Queue, a caller, the destruction
\* pool (queued or running) and destroyed that hold object o
ListedPlaces(o) ==
    Occurrences(queue, o)
        + (IF o \in held THEN 1 ELSE 0)
        + Occurrences(taskqueue["destroy"], o)
        + Cardinality({w \in Workers("destroy") : running["destroy"][w] = o})
        + destroyed[o]

\* the number of hand-over places that hold object o: the creation pool's
\* result queue, where a constructed object awaits its callback, and the
\* hand of stop()'s drain between its pop and its submission
TransitPlaces(o) ==
    Cardinality({i \in 1..Len(outqueue["create"]) :
                    outqueue["create"][i] = <<o, TRUE>>})
        + Cardinality({c \in Callers : item[c] = o})

\* C16 as stated: every constructed object is in exactly one place: on the
\* Ready Queue, held by a caller, queued or running in the destruction pool,
\* or destroyed.
C16_FourPlaces ==
    \A o \in created : ListedPlaces(o) = 1

\* C16 amended: every constructed object is in exactly one place: waiting
\* for its callback in the creation pool, on the Ready Queue, held by a
\* caller, in the hand of stop()'s drain, queued or running in the
\* destruction pool, or destroyed; and what has not been constructed is in
\* none.
C16_ExactlyOnePlace ==
    \A o \in Jobs :
        ListedPlaces(o) + TransitPlaces(o) = (IF o \in created THEN 1 ELSE 0)

\* objects are held, in the drain's hand and in the destruction pool at once
C16_Witness ==
    /\ held # {}
    /\ \E c \in Callers : item[c] # 0
    /\ cache("destroy") # {}
    /\ queue # <<>>

\* tasks submitted to pool p and not finished
Unfinished(p) == Len(taskqueue[p]) + Cardinality(Busy(p))

\* C17: no more than num_create_threads constructors and no more than
\* num_destroy_threads destructors are running at once; the tasks beyond a
\* pool's width are in its task queue.
C17_BoundedConcurrency ==
    \A p \in Pools :
        /\ Cardinality({w \in DOMAIN running[p] : running[p][w] # 0}) <= width(p)
        /\ Unfinished(p) > width(p) =>
              Len(taskqueue[p]) >= Unfinished(p) - width(p)

\* both pools are saturated and the creation pool has a task waiting
C17_Witness ==
    /\ Cardinality(Busy("create")) = num_create_threads
    /\ taskqueue["create"] # <<>>
    /\ Cardinality(Busy("destroy")) = num_destroy_threads

\* what is fixed once the instance is terminal
Terminal == <<created, destroyed, running, taskqueue, outqueue, queue, held,
              live, state>>

\* C18: once stop() has returned nothing is queued or running in either
\* pool, the Ready Queue is empty, and no step of any thread or caller,
\* get(), destroy() and stop() included, starts a constructor or a
\* destructor, submits a task, or changes the Ready Queue: get() is
\* rejected before it pops.
C18_Terminal ==
    stopped =>
        /\ \A p \in Pools : state[p] = "CLOSE" /\ Unfinished(p) = 0
        /\ queue = <<>>
        /\ ~ENABLED (Next /\ Terminal' # Terminal)
        /\ \A c \in Callers :
              pc[c] = "idle" =>
                  /\ ENABLED (GetCall(c) /\ rejected' /\ pc' = pc)
                  /\ \A o \in held : ENABLED (DestroyCall(c, o) /\ held' = held)

\* after stop() returned a get() was rejected and a second stop() is waiting
\* in its last step, while a caller still holds an object
C18_Witness ==
    /\ stopped
    /\ rejected
    /\ held # {}
    /\ pc[Stopper] = "stop_join_destroy"

\* C19 as stated: create() with creation width 0 returns a running instance
\* that has no supply.
C19_ZeroWidthRuns ==
    [][CreateCall(0) =>
          /\ \A c \in Callers : pc'[c] = "idle"
          /\ state'["create"] = "RUN"
          /\ taskqueue'["create"] = <<>>]_vars

\* C19 amended: create() with creation width 0 raises ValueError: it returns
\* no instance, starts no thread and submits no task, so that no get() call
\* can be made and no constructor runs.
C19_ZeroWidthRaises ==
    /\ (\A c \in Callers : pc[c] = "no_instance") =>
          /\ ENABLED (CreateCall(0) /\ \A c \in Callers : pc'[c] = "create_raised")
          /\ ~ENABLED (CreateCall(0) /\ \E c \in Callers : pc'[c] # "create_raised")
    /\ (\E c \in Callers : pc[c] = "create_raised") =>
          /\ \A c \in Callers : pc[c] = "create_raised" /\ ~ENABLED GetCall(c)
          /\ live = {}
          /\ cache("create") = {}
          /\ created = {}
          /\ ~ENABLED NextCreate

C19_Witness ==
    /\ \A c \in Callers : pc[c] = "create_raised"
    /\ live = {}

====
